---------------------------- MODULE Spec2Model ----------------------------
(***************************************************************************)
(* Model of rust-dotnet-bindgen:                                           *)
(*   crates/macro-support/src/lib.rs   signature extraction (macro_parse)  *)
(*   crates/dotnet-bindgen-cli/src/ast.rs   the C# AST and its renderer    *)
(*                                                                         *)
(* Text is modelled as TLA+ strings, so rendered output is compared        *)
(* character for character.  Identifiers that go through a case            *)
(* conversion are sequences of one-character strings.                      *)
(***************************************************************************)
EXTENDS Integers, Sequences, FiniteSets, TLC

VARIABLES
    program,    \* macro-support: the running Program { exports }
    item,       \* macro-support: the syn::Item handed to the last macro_parse
    result,     \* macro-support: what the last macro_parse returned
    node,       \* ast: the node handed to render
    ctx,        \* ast: the RenderContext handed to render
    f,          \* ast: the io::Write sink
    ret,        \* ast: what the last render returned
    nesting,    \* ast: number of scopes entered below the root
    profile     \* build profile: "debug" (overflow checks) or "release"

vars == <<program, item, result, node, ctx, f, ret, nesting, profile>>

extractVars == <<program, item, result>>
renderVars == <<node, ctx, f, ret, nesting, profile>>

(***************************************************************************)
(* Bounds of the model.                                                    *)
(***************************************************************************)
MaxParams == 2      \* parameters of a modelled function declaration
MaxExports == 2     \* exports accumulated in one Program
MaxWidth == 64      \* integer widths 0..MaxWidth are tried as FfiType::Int widths
MaxArgs == 2        \* arguments of a rendered ImportedMethod
MaxUsings == 2      \* using statements of a rendered Root
MaxChildren == 2    \* top-level children of a rendered Root
MaxDepth == 2       \* indentation depth a node is rendered at on its own
MaxNesting == 257   \* scopes entered one inside the other

(***************************************************************************)
(* dotnet_bindgen_core data model, as the two crates use it.               *)
(***************************************************************************)
FfiVoid == [variant |-> "Void", width |-> 0, signed |-> FALSE]

FfiInt(w, s) == [variant |-> "Int", width |-> w, signed |-> s]

MethodArgument(t, n) == [ffi_type |-> t, name |-> n]

BindgenFunction(n, a, r) == [name |-> n, args |-> a, return_type |-> r]

ExportFunc(fn) == [variant |-> "Func", func |-> fn]

(***************************************************************************)
(* Identifiers, as sequences of characters.                                *)
(***************************************************************************)
Id_add == <<"a", "d", "d">>
Id_get_x == <<"g", "e", "t", "_", "x">>
Id_left == <<"l", "e", "f", "t">>
Id_myArg == <<"m", "y", "A", "r", "g">>

(***************************************************************************)
(* macro-support: diagnostics.  A span is the syntax element the           *)
(* diagnostic points at: the argument index (0 for the signature or the    *)
(* item itself) and the part of it.                                        *)
(***************************************************************************)
NoSpan == [arg |-> 0, part |-> "none"]

Span(i, p) == [arg |-> i, part |-> p]

Ok(v) == [kind |-> "Ok", val |-> v, message |-> "", span |-> NoSpan]

spanned_error(sp, msg) == [kind |-> "Err", val |-> <<>>, message |-> msg, span |-> sp]

NoResult == [kind |-> "None", val |-> <<>>, message |-> "", span |-> NoSpan]

(***************************************************************************)
(* macro-support: the syntax the extractor walks.                          *)
(***************************************************************************)
Receiver == [kind |-> "Receiver", pat |-> "none", by_ref |-> FALSE, subpat |-> FALSE,
             ident |-> <<>>, ty |-> "Self"]

Typed(patkind, r, s, id, t) ==
    [kind |-> "Typed", pat |-> patkind, by_ref |-> r, subpat |-> s, ident |-> id, ty |-> t]

FnArgs ==
    {Receiver}
    \cup {Typed("Ident", FALSE, FALSE, Id_left, "i32"),
          Typed("Ident", TRUE, FALSE, Id_left, "i32"),
          Typed("Ident", FALSE, TRUE, Id_left, "i32"),
          Typed("Ident", FALSE, FALSE, Id_myArg, "String"),
          Typed("Tuple", FALSE, FALSE, <<>>, "i32")}

RECURSIVE SeqsUpTo(_, _)
SeqsUpTo(S, n) ==
    IF n = 0 THEN {<<>>}
    ELSE LET shorter == SeqsUpTo(S, n - 1)
         IN  shorter \cup {Append(s, x) : s \in {t \in shorter : Len(t) = n - 1}, x \in S}

ReturnTypes == {"Default", "i32"}

ItemFn(id, ins, out) == [kind |-> "Fn", ident |-> id, inputs |-> ins, output |-> out]

ItemStruct(id) == [kind |-> "Struct", ident |-> id, inputs |-> <<>>, output |-> "Default"]

Items ==
    {ItemFn(id, ins, out) : id \in {Id_add, Id_get_x},
                            ins \in SeqsUpTo(FnArgs, MaxParams),
                            out \in ReturnTypes}
    \cup {ItemStruct(Id_add)}

NoItem == ItemStruct(<<>>)

(***************************************************************************)
(* macro-support: parse_type, parse_pat_ident, parse_pat, macro_parse.     *)
(***************************************************************************)
parse_type(ty, sp) ==
    spanned_error(sp, "Can't generate binding metadata for this type")

parse_pat_ident(pat_ident, i) ==
    IF pat_ident.by_ref
    THEN spanned_error(Span(i, "by_ref"), "Can't generate binding metadata for ref types")
    ELSE IF pat_ident.subpat
    THEN spanned_error(Span(i, "subpat"), "Can't generate binding metadata for subpatterns")
    ELSE Ok(pat_ident.ident)

parse_pat(arg, i) ==
    IF arg.pat = "Ident"
    THEN parse_pat_ident(arg, i)
    ELSE spanned_error(Span(i, "pat"), "Can't generate binding metadata for this pattern")

\* One iteration of the loop over self.sig.inputs: the value pushed onto
\* args, or the diagnostic the loop bails out with.
parse_arg(arg, i) ==
    IF arg.kind = "Receiver"
    THEN spanned_error(Span(i, "receiver"), "Can't generate binding metadata for methods")
    ELSE LET name == parse_pat(arg, i)
         IN  IF name.kind = "Err" THEN name
             ELSE LET ffi_type == parse_type(arg.ty, Span(i, "ty"))
                  IN  IF ffi_type.kind = "Err" THEN ffi_type
                      ELSE Ok(MethodArgument(ffi_type.val, name.val))

RECURSIVE parse_args(_, _, _)
parse_args(inputs, i, args) ==
    IF i > Len(inputs) THEN Ok(args)
    ELSE LET a == parse_arg(inputs[i], i)
         IN  IF a.kind = "Err" THEN a
             ELSE parse_args(inputs, i + 1, Append(args, a.val))

parse_return(output) ==
    IF output = "Default" THEN Ok(FfiVoid)
    ELSE parse_type(output, Span(0, "output"))

\* Mutant: the export is pushed before the arguments are validated, so a
\* failing declaration leaves a partial Export behind.
ItemFn_macro_parse_partial(self, prog) ==
    LET pushed == [prog EXCEPT !.exports =
                       Append(@, ExportFunc(BindgenFunction(self.ident, <<>>, FfiVoid)))]
        args == parse_args(self.inputs, 1, <<>>)
    IN  IF args.kind = "Err" THEN [ret |-> args, program |-> pushed]
        ELSE LET return_type == parse_return(self.output)
             IN  IF return_type.kind = "Err" THEN [ret |-> return_type, program |-> pushed]
                 ELSE LET func == BindgenFunction(self.ident, args.val, return_type.val)
                      IN  [ret |-> Ok(<<>>),
                           program |-> [prog EXCEPT !.exports = Append(@, ExportFunc(func))]]

\* Mutant: the export is inserted at the front of Program.exports.
ItemFn_macro_parse_prepend(self, prog) ==
    LET args == parse_args(self.inputs, 1, <<>>)
    IN  IF args.kind = "Err" THEN [ret |-> args, program |-> prog]
        ELSE LET return_type == parse_return(self.output)
             IN  IF return_type.kind = "Err" THEN [ret |-> return_type, program |-> prog]
                 ELSE LET func == BindgenFunction(self.ident, args.val, return_type.val)
                      IN  [ret |-> Ok(<<>>),
                           program |-> [prog EXCEPT !.exports = <<ExportFunc(func)>> \o @]]

\* impl MacroParse for syn::ItemFn: the pair (returned value, program after).
ItemFn_macro_parse(self, prog) ==
    LET args == parse_args(self.inputs, 1, <<>>)
    IN  IF args.kind = "Err" THEN [ret |-> args, program |-> prog]
        ELSE LET return_type == parse_return(self.output)
             IN  IF return_type.kind = "Err" THEN [ret |-> return_type, program |-> prog]
                 ELSE LET func == BindgenFunction(self.ident, args.val, return_type.val)
                      IN  [ret |-> Ok(<<>>),
                           program |-> [prog EXCEPT !.exports = Append(@, ExportFunc(func))]]

\* impl MacroParse for syn::Item
Item_macro_parse(self, prog) ==
    IF self.kind = "Fn"
    THEN ItemFn_macro_parse(self, prog)
    ELSE [ret |-> spanned_error(Span(0, "item"), "Can't generate binding metadata for this"),
          program |-> prog]

(***************************************************************************)
(* ast.rs: the sink.  A sink accepts writes until its fail_from-th write   *)
(* (0: it never fails); that write and every later one fails, and the      *)
(* error of the n-th write is identified by n.  One write! is one write    *)
(* on the sink, and out lists the texts written, in order; the text the    *)
(* sink holds is their concatenation.  A render in progress is the sink plus the Result so far:  *)
(* res is "Ok", "Err" (err says which write failed) or "Panic".            *)
(***************************************************************************)
U8Max == 255

INDENT_TOK == "    "

Sink(ff) == [out |-> <<>>, attempts |-> 0, fail_from |-> ff, res |-> "Ok", err |-> 0]

write(s, txt) ==
    IF s.fail_from # 0 /\ s.attempts + 1 >= s.fail_from
    THEN [s EXCEPT !.attempts = @ + 1, !.res = "Err", !.err = s.attempts + 1]
    ELSE [s EXCEPT !.attempts = @ + 1, !.out = Append(@, txt)]

panic(s) == [s EXCEPT !.res = "Panic"]

IsOk(s) == s.res = "Ok"

\* The `?` operator and the `if result.is_ok()` test: the next step runs
\* only on a render that has not failed.
Try(r, next(_)) == IF IsOk(r) THEN next(r) ELSE r

\* The loop `for _ in 0..ctx.indent_level { write!(f, "{}", INDENT_TOK)?; }`,
\* iterations i..level-1: the first half of the range, then, if no write
\* failed, the second half.
RECURSIVE render_indent_from(_, _, _)
render_indent_from(s, i, level) ==
    IF i >= level THEN s
    ELSE IF level - i = 1 THEN write(s, INDENT_TOK)
    ELSE Try(render_indent_from(s, i, (i + level) \div 2),
             LAMBDA h : render_indent_from(h, (i + level) \div 2, level))

render_indent(s, c) == render_indent_from(s, 0, c.indent_level)

\* Mutant: the newline is written whether or not the text was.
render_ln_unchecked(s, c, txt) ==
    Try(render_indent(s, c),
        LAMBDA r1 : write(write(r1, txt), "\n"))

\* macro_rules! render_ln
render_ln(s, c, txt) ==
    Try(Try(render_indent(s, c),
        LAMBDA r1 : write(r1, txt)),
        LAMBDA r2 : write(r2, "\n"))

(***************************************************************************)
(* ast.rs: RenderContext.  indent_level is a u8: in a build with overflow  *)
(* checks 255 + 1 panics, without them it wraps to 0.                      *)
(***************************************************************************)
RenderContext_default == [indent_level |-> 0]

indented(c, prof) ==
    IF c.indent_level + 1 > U8Max
    THEN IF prof = "debug"
         THEN [panicked |-> TRUE, ctx |-> c]
         ELSE [panicked |-> FALSE,
               ctx |-> [c EXCEPT !.indent_level = (c.indent_level + 1) % (U8Max + 1)]]
    ELSE [panicked |-> FALSE, ctx |-> [c EXCEPT !.indent_level = c.indent_level + 1]]

(***************************************************************************)
(* heck's case conversions, on identifiers as character sequences.  A      *)
(* word ends at an underscore, between a lowercase and an uppercase        *)
(* letter, and before the last capital of a run of capitals that is        *)
(* followed by a lowercase letter.                                         *)
(***************************************************************************)
LowerLetters == <<"a", "b", "c", "d", "e", "f", "g", "h", "i", "j", "k", "l", "m",
                  "n", "o", "p", "q", "r", "s", "t", "u", "v", "w", "x", "y", "z">>

UpperLetters == <<"A", "B", "C", "D", "E", "F", "G", "H", "I", "J", "K", "L", "M",
                  "N", "O", "P", "Q", "R", "S", "T", "U", "V", "W", "X", "Y", "Z">>

is_lowercase(ch) == \E i \in 1..Len(LowerLetters) : LowerLetters[i] = ch

is_uppercase(ch) == \E i \in 1..Len(UpperLetters) : UpperLetters[i] = ch

to_uppercase(ch) ==
    IF is_lowercase(ch)
    THEN UpperLetters[CHOOSE i \in 1..Len(LowerLetters) : LowerLetters[i] = ch]
    ELSE ch

to_lowercase(ch) ==
    IF is_uppercase(ch)
    THEN LowerLetters[CHOOSE i \in 1..Len(UpperLetters) : UpperLetters[i] = ch]
    ELSE ch

RECURSIVE Join(_)
Join(chars) == IF chars = <<>> THEN "" ELSE Head(chars) \o Join(Tail(chars))

\* heck::transform's scan: words collected so far, the start of the current
\* word, the case mode of the current word.
RECURSIVE split_words(_, _, _, _, _)
split_words(s, i, init, mode, words) ==
    IF i > Len(s) THEN words
    ELSE LET ch == s[i]
         IN  IF ch = "_"
             THEN split_words(s, i + 1, IF init = i THEN init + 1 ELSE init, mode, words)
             ELSE IF i = Len(s)
             THEN Append(words, SubSeq(s, init, i))
             ELSE LET next == s[i + 1]
                      next_mode == IF is_lowercase(ch) THEN "Lowercase"
                                   ELSE IF is_uppercase(ch) THEN "Uppercase"
                                   ELSE mode
                  IN  IF next = "_" \/ (next_mode = "Lowercase" /\ is_uppercase(next))
                      THEN split_words(s, i + 1, i + 1, "Boundary",
                                       Append(words, SubSeq(s, init, i)))
                      ELSE IF mode = "Uppercase" /\ is_uppercase(ch) /\ is_lowercase(next)
                      THEN split_words(s, i + 1, i, "Boundary",
                                       Append(words, SubSeq(s, init, i - 1)))
                      ELSE split_words(s, i + 1, init, next_mode, words)

lowercase(w) == [i \in 1..Len(w) |-> to_lowercase(w[i])]

capitalize(w) ==
    [i \in 1..Len(w) |-> IF i = 1 THEN to_uppercase(w[i]) ELSE to_lowercase(w[i])]

RECURSIVE concat_words(_, _, _)
concat_words(words, i, mixed) ==
    IF i > Len(words) THEN ""
    ELSE Join(IF mixed /\ i = 1 THEN lowercase(words[i]) ELSE capitalize(words[i]))
         \o concat_words(words, i + 1, mixed)

to_camel_case(s) == concat_words(split_words(s, 1, 1, "Boundary", <<>>), 1, FALSE)

to_mixed_case(s) == concat_words(split_words(s, 1, 1, "Boundary", <<>>), 1, TRUE)

(***************************************************************************)
(* ast.rs: the nodes.  An Option is a sequence of length 0 or 1.           *)
(***************************************************************************)
BlockComment(text) == [kind |-> "BlockComment", text |-> text]

UsingStatement(path) == [kind |-> "UsingStatement", path |-> path]

Namespace(name, children) == [kind |-> "Namespace", name |-> name, children |-> children]

ImportedMethod(binary_name, func_data) ==
    [kind |-> "ImportedMethod", binary_name |-> binary_name, func_data |-> func_data]

Class(name, methods, is_static) ==
    [kind |-> "Class", name |-> name, methods |-> methods, is_static |-> is_static]

Root(file_comment, using_statements, children) ==
    [kind |-> "Root", file_comment |-> file_comment,
     using_statements |-> using_statements, children |-> children]

(***************************************************************************)
(* ast.rs: the render functions.  Each takes the render in progress and    *)
(* returns it after the node; `?` is the IsOk test between two steps.      *)
(***************************************************************************)
\* Mutant: no special case for 8-bit integers.
FfiType_render_noByte(self, s) ==
    IF self.variant = "Int"
    THEN IF self.width \in {8, 16, 32, 64}
         THEN write(s, (IF self.signed THEN "Int" ELSE "UInt") \o ToString(self.width))
         ELSE panic(s)
    ELSE write(s, "void")

\* impl AstNode for FfiType
FfiType_render(self, s) ==
    IF self.variant = "Int"
    THEN IF self.width = 8
         THEN IF self.signed THEN write(s, "SByte") ELSE write(s, "Byte")
         ELSE IF self.width \in {16, 32, 64}
         THEN write(s, (IF self.signed THEN "Int" ELSE "UInt") \o ToString(self.width))
         ELSE panic(s)
    ELSE write(s, "void")

RECURSIVE BlockComment_lines(_, _, _, _)
BlockComment_lines(text, i, s, c) ==
    IF i > Len(text) THEN s
    ELSE Try(render_ln(s, c, " * " \o text[i]),
             LAMBDA r : BlockComment_lines(text, i + 1, r, c))

\* impl AstNode for BlockComment
BlockComment_render(self, s, c) ==
    Try(Try(render_ln(s, c, "/*"),
        LAMBDA r1 : BlockComment_lines(self.text, 1, r1, c)),
        LAMBDA r2 : render_ln(r2, c, " */"))

\* impl AstNode for UsingStatement
UsingStatement_render(self, s, c) == render_ln(s, c, "using " \o self.path \o ";")

ImportedMethod_csharp_name(self) == to_camel_case(self.func_data.name)

\* for arg in &self.func_data.args[..] { ... }, from the i-th argument on
RECURSIVE ImportedMethod_args(_, _, _, _)
ImportedMethod_args(args, i, first, s) ==
    IF i > Len(args) THEN s
    ELSE Try(Try(Try(IF ~first THEN write(s, ", ") ELSE s,
             LAMBDA r1 : FfiType_render(args[i].ffi_type, r1)),
             LAMBDA r2 : write(r2, " " \o to_mixed_case(args[i].name))),
             LAMBDA r3 : ImportedMethod_args(args, i + 1, FALSE, r3))

\* Mutant: every argument is followed by the separator.
ImportedMethod_render_trailingSep(self, s, c) ==
    Try(Try(Try(Try(Try(Try(Try(
        render_ln(s, c, "[DllImport(\"" \o self.binary_name \o "\", EntryPoint = \""
                        \o Join(self.func_data.name) \o "\")]"),
        LAMBDA r1 : render_indent(r1, c)),
        LAMBDA r2 : write(r2, "public static extern ")),
        LAMBDA r3 : FfiType_render(self.func_data.return_type, r3)),
        LAMBDA r4 : write(r4, " " \o ImportedMethod_csharp_name(self) \o "(")),
        LAMBDA r5 : ImportedMethod_args(self.func_data.args, 1, TRUE, r5)),
        LAMBDA r6 : IF Len(self.func_data.args) > 0 THEN write(r6, ", ") ELSE r6),
        LAMBDA r7 : write(r7, ");\n"))

\* impl AstNode for ImportedMethod
ImportedMethod_render(self, s, c) ==
    Try(Try(Try(Try(Try(Try(
        render_ln(s, c, "[DllImport(\"" \o self.binary_name \o "\", EntryPoint = \""
                        \o Join(self.func_data.name) \o "\")]"),
        LAMBDA r1 : render_indent(r1, c)),
        LAMBDA r2 : write(r2, "public static extern ")),
        LAMBDA r3 : FfiType_render(self.func_data.return_type, r3)),
        LAMBDA r4 : write(r4, " " \o ImportedMethod_csharp_name(self) \o "(")),
        LAMBDA r5 : ImportedMethod_args(self.func_data.args, 1, TRUE, r5)),
        LAMBDA r6 : write(r6, ");\n"))

\* for method in &self.methods { method.render(f, ctx.indented())?; }
\* (ctx.indented() is evaluated, and may panic, before the call)
RECURSIVE Class_methods(_, _, _, _, _)
Class_methods(methods, i, s, c, prof) ==
    IF i > Len(methods) THEN s
    ELSE Try(IF indented(c, prof).panicked THEN panic(s)
             ELSE ImportedMethod_render(methods[i], s, indented(c, prof).ctx),
             LAMBDA r : Class_methods(methods, i + 1, r, c, prof))

\* impl AstNode for Class
Class_render(self, s, c, prof) ==
    Try(Try(Try(
        render_ln(s, c, "public " \o (IF self.is_static THEN "static " ELSE "")
                        \o "class " \o self.name),
        LAMBDA r1 : render_ln(r1, c, "{")),
        LAMBDA r2 : Class_methods(self.methods, 1, r2, c, prof)),
        LAMBDA r3 : render_ln(r3, c, "}"))

\* dyn AstNode::render, and impl AstNode for Namespace with its loop
\* for child in &self.children { child.render(f, ctx.indented())?; }
RECURSIVE AstNode_render(_, _, _, _)
RECURSIVE Namespace_children(_, _, _, _, _)
RECURSIVE Namespace_render(_, _, _, _)
AstNode_render(self, s, c, prof) ==
    CASE self.kind = "BlockComment" -> BlockComment_render(self, s, c)
      [] self.kind = "UsingStatement" -> UsingStatement_render(self, s, c)
      [] self.kind = "Namespace" -> Namespace_render(self, s, c, prof)
      [] self.kind = "ImportedMethod" -> ImportedMethod_render(self, s, c)
      [] self.kind = "Class" -> Class_render(self, s, c, prof)

Namespace_children(children, i, s, c, prof) ==
    IF i > Len(children) THEN s
    ELSE Try(IF indented(c, prof).panicked THEN panic(s)
             ELSE AstNode_render(children[i], s, indented(c, prof).ctx, prof),
             LAMBDA r : Namespace_children(children, i + 1, r, c, prof))

Namespace_render(self, s, c, prof) ==
    Try(Try(Try(
        render_ln(s, c, "namespace " \o self.name),
        LAMBDA r1 : render_ln(r1, c, "{")),
        LAMBDA r2 : Namespace_children(self.children, 1, r2, c, prof)),
        LAMBDA r3 : render_ln(r3, c, "}"))

\* for using in &self.using_statements { using.render(f, ctx.clone())?; }
RECURSIVE Root_usings(_, _, _, _)
Root_usings(usings, i, s, c) ==
    IF i > Len(usings) THEN s
    ELSE Try(UsingStatement_render(usings[i], s, c),
             LAMBDA r : Root_usings(usings, i + 1, r, c))

\* for child in &self.children { if !first { "\n" } child.render(..)?; }
RECURSIVE Root_children(_, _, _, _, _, _)
Root_children(children, i, first, s, c, prof) ==
    IF i > Len(children) THEN s
    ELSE Try(Try(IF ~first THEN write(s, "\n") ELSE s,
             LAMBDA r1 : AstNode_render(children[i], r1, c, prof)),
             LAMBDA r2 : Root_children(children, i + 1, FALSE, r2, c, prof))

\* Mutant: `first` is not carried from the comment and the import list to
\* the children, so the first child never gets a blank line before it.
Root_render_firstReset(self, s, prof) ==
    Try(Try(Try(
        IF Len(self.file_comment) = 1
        THEN BlockComment_render(self.file_comment[1], s, RenderContext_default)
        ELSE s,
        LAMBDA r1 : IF Len(self.file_comment) = 1 /\ Len(self.using_statements) > 0
                    THEN write(r1, "\n") ELSE r1),
        LAMBDA r2 : Root_usings(self.using_statements, 1, r2, RenderContext_default)),
        LAMBDA r3 : Root_children(self.children, 1, TRUE, r3, RenderContext_default, prof))

\* Root::render.  `first` is still true after the comment iff there is no
\* comment, and after the import list iff there is neither a comment nor a
\* using statement.
Root_render(self, s, prof) ==
    Try(Try(Try(
        IF Len(self.file_comment) = 1
        THEN BlockComment_render(self.file_comment[1], s, RenderContext_default)
        ELSE s,
        LAMBDA r1 : IF Len(self.file_comment) = 1 /\ Len(self.using_statements) > 0
                    THEN write(r1, "\n") ELSE r1),
        LAMBDA r2 : Root_usings(self.using_statements, 1, r2, RenderContext_default)),
        LAMBDA r3 : Root_children(self.children, 1,
                                  Len(self.file_comment) = 0
                                      /\ Len(self.using_statements) = 0,
                                  r3, RenderContext_default, prof))

(***************************************************************************)
(* macro-support: the state machine.                                       *)
(***************************************************************************)
RenderIdle ==
    /\ node = <<>>
    /\ ctx = [indent_level |-> 0]
    /\ f = [out |-> <<>>, attempts |-> 0, fail_from |-> 0]
    /\ ret = [kind |-> "None", err |-> 0]
    /\ nesting = 0
    /\ profile = "debug"

InitExtract ==
    /\ program = [exports |-> <<>>]
    /\ item = NoItem
    /\ result = NoResult
    /\ RenderIdle

MacroParse(it) ==
    /\ Len(program.exports) < MaxExports
    /\ LET r == Item_macro_parse(it, program)
       IN  /\ program' = r.program
           /\ result' = r.ret
    /\ item' = it
    /\ UNCHANGED renderVars

NextExtract == \E it \in Items : MacroParse(it)

SpecExtract == InitExtract /\ [][NextExtract]_vars

(***************************************************************************)
(* ast.rs: the state machines.  The sink variable f keeps what the caller  *)
(* sees of the sink, ret the value render returned.                        *)
(***************************************************************************)
NoRet == [kind |-> "None", err |-> 0]

SinkOf(r) == [out |-> r.out, attempts |-> r.attempts, fail_from |-> r.fail_from]

RetOf(r) == [kind |-> r.res, err |-> r.err]

Begin(s) == [out |-> s.out, attempts |-> s.attempts, fail_from |-> s.fail_from,
             res |-> "Ok", err |-> 0]

ExtractIdle ==
    /\ program = [exports |-> <<>>]
    /\ item = NoItem
    /\ result = NoResult

\* ---- rendering one FfiType ----
FfiTypes == {FfiVoid} \cup {FfiInt(w, sg) : w \in 0..MaxWidth, sg \in BOOLEAN}

InitType ==
    /\ ExtractIdle
    /\ node \in FfiTypes
    /\ ctx = RenderContext_default
    /\ \E ff \in 0..1 : f = SinkOf(Sink(ff))
    /\ ret = NoRet
    /\ nesting = 0
    /\ profile \in {"debug", "release"}

RenderFfiType ==
    /\ ret = NoRet
    /\ LET r == FfiType_render(node, Begin(f))
       IN  /\ f' = SinkOf(r)
           /\ ret' = RetOf(r)
    /\ UNCHANGED <<node, ctx, nesting, profile, program, item, result>>

NextType == RenderFfiType

SpecType == InitType /\ [][NextType]_vars

\* ---- rendering one node, with the sink failing at any of its writes ----
RenderTypes == {FfiVoid, FfiInt(8, TRUE), FfiInt(8, FALSE), FfiInt(16, FALSE),
                FfiInt(32, TRUE), FfiInt(64, FALSE), FfiInt(24, TRUE)}

MethodArgs == {MethodArgument(FfiInt(32, TRUE), Id_left),
               MethodArgument(FfiInt(8, FALSE), Id_myArg),
               MethodArgument(FfiInt(8, TRUE), Id_get_x)}

Methods ==
    {ImportedMethod("native", BindgenFunction(n, a, r)) :
        n \in {Id_add, Id_get_x}, a \in SeqsUpTo(MethodArgs, MaxArgs), r \in RenderTypes}

Method_add ==
    ImportedMethod("native",
        BindgenFunction(Id_add, <<MethodArgument(FfiInt(32, TRUE), Id_left),
                                  MethodArgument(FfiInt(32, TRUE), Id_myArg)>>,
                        FfiInt(32, TRUE)))

Method_get_x == ImportedMethod("native", BindgenFunction(Id_get_x, <<>>, FfiVoid))

Classes == {Class("Bindings", <<Method_add, Method_get_x>>, TRUE),
            Class("Loose", <<Method_get_x>>, FALSE),
            Class("Empty", <<>>, TRUE)}

Namespaces ==
    {Namespace("Native", <<>>),
     Namespace("Native", <<Class("Bindings", <<Method_add, Method_get_x>>, TRUE)>>),
     Namespace("Outer", <<Namespace("Inner", <<Class("Loose", <<Method_get_x>>, FALSE)>>),
                          UsingStatement("System")>>)}

BlockComments == {BlockComment(<<>>), BlockComment(<<"generated", "do not edit">>)}

UsingStatements == {UsingStatement("System"), UsingStatement("System.Runtime.InteropServices")}

TopLevelNodes ==
    {Namespace("Native", <<>>),
     Namespace("Native", <<Class("Bindings", <<Method_add, Method_get_x>>, TRUE)>>),
     Class("Loose", <<Method_get_x>>, FALSE)}

Roots ==
    {Root(c, u, ch) : c \in {<<>>} \cup {<<b>> : b \in BlockComments},
                      u \in SeqsUpTo({UsingStatement("System")}, MaxUsings),
                      ch \in SeqsUpTo(TopLevelNodes, MaxChildren)}

\* The number of writes rendering takes when no write fails.
Writes(n, c, prof) ==
    IF n.kind = "Root" THEN Root_render(n, Sink(0), prof).attempts
    ELSE AstNode_render(n, Sink(0), c, prof).attempts

InitRender ==
    /\ ExtractIdle
    /\ profile \in {"debug", "release"}
    /\ \/ node \in Roots /\ ctx = RenderContext_default
       \/ /\ node \in Methods \cup Classes \cup Namespaces \cup BlockComments
                      \cup UsingStatements
          /\ \E d \in 0..MaxDepth : ctx = [indent_level |-> d]
    /\ \E ff \in 0..Writes(node, ctx, profile) : f = SinkOf(Sink(ff))
    /\ ret = NoRet
    /\ nesting = ctx.indent_level

Rendered(r) ==
    /\ f' = SinkOf(r)
    /\ ret' = RetOf(r)
    /\ UNCHANGED <<node, ctx, nesting, profile, program, item, result>>

RenderRoot ==
    /\ ret = NoRet
    /\ node.kind = "Root"
    /\ Rendered(Root_render(node, Begin(f), profile))

RenderBlockComment ==
    /\ ret = NoRet
    /\ node.kind = "BlockComment"
    /\ Rendered(BlockComment_render(node, Begin(f), ctx))

RenderUsingStatement ==
    /\ ret = NoRet
    /\ node.kind = "UsingStatement"
    /\ Rendered(UsingStatement_render(node, Begin(f), ctx))

RenderNamespace ==
    /\ ret = NoRet
    /\ node.kind = "Namespace"
    /\ Rendered(Namespace_render(node, Begin(f), ctx, profile))

RenderClass ==
    /\ ret = NoRet
    /\ node.kind = "Class"
    /\ Rendered(Class_render(node, Begin(f), ctx, profile))

RenderImportedMethod ==
    /\ ret = NoRet
    /\ node.kind = "ImportedMethod"
    /\ Rendered(ImportedMethod_render(node, Begin(f), ctx))

NextRender ==
    \/ RenderRoot
    \/ RenderBlockComment
    \/ RenderUsingStatement
    \/ RenderNamespace
    \/ RenderClass
    \/ RenderImportedMethod

SpecRender == InitRender /\ [][NextRender]_vars

\* ---- descending through nested scopes ----
NestedFixtures ==
    {Namespace("Native", <<Class("Bindings", <<Method_add, Method_get_x>>, TRUE)>>),
     Namespace("Other", <<Class("Loose", <<Method_get_x, Method_get_x>>, FALSE)>>)}

InitDepth ==
    /\ ExtractIdle
    /\ profile \in {"debug", "release"}
    /\ node \in NestedFixtures
    /\ ctx = RenderContext_default
    /\ f = SinkOf(Sink(0))
    /\ ret = NoRet
    /\ nesting = 0

\* A parent's loop passes ctx.indented() to the child it renders next.
EnterScope ==
    /\ ret.kind # "Panic"
    /\ nesting < MaxNesting
    /\ LET child == indented(ctx, profile)
       IN  IF child.panicked
           THEN /\ ret' = [kind |-> "Panic", err |-> 0]
                /\ UNCHANGED <<ctx, nesting>>
           ELSE /\ ret' = NoRet
                /\ ctx' = child.ctx
                /\ nesting' = nesting + 1
    /\ f' = SinkOf(Sink(0))
    /\ UNCHANGED <<node, profile, program, item, result>>

\* The scope reached holds the namespace: it is rendered with that context.
RenderNested ==
    /\ ret = NoRet
    /\ Rendered(Namespace_render(node, Begin(f), ctx, profile))

NextDepth == EnterScope \/ RenderNested

SpecDepth == InitDepth /\ [][NextDepth]_vars

(***************************************************************************)
(* Claims about signature extraction.                                      *)
(***************************************************************************)
\* The vocabulary of primitive integer spellings the specification intends
\* type translation to accept.
SupportedSpellings == {"i8", "i16", "i32", "i64", "u8", "u16", "u32", "u64"}

PlainParam(a) ==
    /\ a.kind = "Typed"
    /\ a.pat = "Ident"
    /\ ~a.by_ref
    /\ ~a.subpat

\* The declaration has a construct extraction must reject.
Offending(it) ==
    /\ it.kind = "Fn"
    /\ \/ \E i \in 1..Len(it.inputs) :
             \/ ~PlainParam(it.inputs[i])
             \/ it.inputs[i].ty \notin SupportedSpellings
       \/ it.output \notin SupportedSpellings \cup {"Default"}

\* C3: a declaration with a receiver, a by-reference binding, a sub-pattern
\* or non-identifier binding, or an unsupported type is rejected; and every
\* failing macro_parse returns a diagnostic with a non-empty message and a
\* location and leaves Program.exports exactly as it was before the call.
C3_FailureLeavesProgramUnchanged ==
    [][/\ Offending(item') => result'.kind = "Err"
       /\ result'.kind = "Err" =>
            /\ result'.message # ""
            /\ result'.span # NoSpan
            /\ program'.exports = program.exports]_vars

\* C3 witness: a two-parameter declaration whose by-reference binding was
\* rejected while the Program already held an export.
C3_Witness ==
    /\ result.kind = "Err"
    /\ result.span = Span(1, "by_ref")
    /\ Len(item.inputs) = 2
    /\ Len(program.exports) = 1

\* C4: a declaration with N >= 1 plain-identifier parameters of supported
\* types and a supported or absent return type is extracted successfully,
\* and the appended BindgenFunction has exactly those N arguments in the
\* declared order.
C4_SupportedDeclarationExtracts ==
    ( /\ item.kind = "Fn"
      /\ result.kind # "None"
      /\ Len(item.inputs) >= 1
      /\ \A i \in 1..Len(item.inputs) :
            PlainParam(item.inputs[i]) /\ item.inputs[i].ty \in SupportedSpellings
      /\ item.output \in SupportedSpellings \cup {"Default"} )
    => /\ result.kind = "Ok"
       /\ Len(program.exports) >= 1
       /\ LET func == program.exports[Len(program.exports)].func
          IN  /\ Len(func.args) = Len(item.inputs)
              /\ \A i \in 1..Len(item.inputs) : func.args[i].name = item.inputs[i].ident

\* C5: a declaration with no parameters and no return annotation succeeds
\* and appends exactly one Export::Func{name = the declared identifier,
\* args = empty, return_type = Void} at the end of Program.exports; no call
\* changes or moves an export that was already there.
C5_NoArgDeclarationAppends ==
    [][/\ ( /\ item'.kind = "Fn"
            /\ item'.inputs = <<>>
            /\ item'.output = "Default" )
          => /\ result'.kind = "Ok"
             /\ program'.exports =
                  Append(program.exports,
                         ExportFunc(BindgenFunction(item'.ident, <<>>, FfiVoid)))
       /\ Len(program'.exports) >= Len(program.exports)
       /\ \A i \in 1..Len(program.exports) : program'.exports[i] = program.exports[i]
      ]_vars

\* C5 witness: two successful extractions of differently named no-argument
\* functions, the later one last.
C5_Witness ==
    /\ result.kind = "Ok"
    /\ Len(program.exports) = 2
    /\ program.exports[1].func.name = Id_add
    /\ program.exports[2] = ExportFunc(BindgenFunction(Id_get_x, <<>>, FfiVoid))
    /\ item = ItemFn(Id_get_x, <<>>, "Default")

(***************************************************************************)
(* Claims about the renderer.                                              *)
(***************************************************************************)
\* The text a sink holds: the concatenation of the texts written to it.
RECURSIVE Concat(_, _, _)
Concat(out, lo, hi) ==
    IF lo > hi THEN ""
    ELSE IF lo = hi THEN out[lo]
    ELSE Concat(out, lo, (lo + hi) \div 2) \o Concat(out, (lo + hi) \div 2 + 1, hi)

Text(out) == Concat(out, 1, Len(out))

RECURSIVE Indent(_)
Indent(d) == IF d = 0 THEN "" ELSE "    " \o Indent(d - 1)

SupportedWidths == {8, 16, 32, 64}

ValidFfiType(t) == t.variant = "Void" \/ (t.variant = "Int" /\ t.width \in SupportedWidths)

\* The table of type tokens of the specification.
TypeToken(t) ==
    CASE t = FfiVoid -> "void"
      [] t = FfiInt(8, TRUE) -> "SByte"
      [] t = FfiInt(8, FALSE) -> "Byte"
      [] t = FfiInt(16, TRUE) -> "Int16"
      [] t = FfiInt(16, FALSE) -> "UInt16"
      [] t = FfiInt(32, TRUE) -> "Int32"
      [] t = FfiInt(32, FALSE) -> "UInt32"
      [] t = FfiInt(64, TRUE) -> "Int64"
      [] t = FfiInt(64, FALSE) -> "UInt64"

\* C1: for Void and every Int of width 8, 16, 32 or 64, signed or not,
\* rendering the type writes exactly one token, the one of the table, and
\* nothing else; it succeeds whenever the sink does; an 8-bit integer is
\* never rendered as Int8 or UInt8.
C1_TypeTokens ==
    (ret.kind # "None" /\ ValidFfiType(node)) =>
        /\ f.fail_from = 0 => ret.kind = "Ok"
        /\ ret.kind = "Ok" =>
             /\ f.out = <<TypeToken(node)>>
             /\ f.out[1] \notin {"Int8", "UInt8"}

\* C1 witness: an unsigned 8-bit integer was rendered as Byte.
C1_Witness ==
    /\ node = FfiInt(8, FALSE)
    /\ ret.kind = "Ok"
    /\ f.out = <<"Byte">>

\* C2: no FfiType value that can be handed to the renderer makes
\* FfiType::render panic: it returns Ok or an I/O error.
C2_RenderNeverPanics == ret.kind # "Panic"

ValidMethod(m) ==
    /\ ValidFfiType(m.func_data.return_type)
    /\ \A i \in 1..Len(m.func_data.args) : ValidFfiType(m.func_data.args[i].ffi_type)

RECURSIVE ParamList(_, _)
ParamList(args, i) ==
    IF i > Len(args) THEN ""
    ELSE (IF i > 1 THEN ", " ELSE "")
         \o TypeToken(args[i].ffi_type) \o " " \o to_mixed_case(args[i].name)
         \o ParamList(args, i + 1)

\* The two lines of an imported method, without their indentation.
DllImportLine(m) ==
    "[DllImport(\"" \o m.binary_name \o "\", EntryPoint = \""
    \o Join(m.func_data.name) \o "\")]\n"

ExternLine(m) ==
    "public static extern " \o TypeToken(m.func_data.return_type) \o " "
    \o to_camel_case(m.func_data.name) \o "(" \o ParamList(m.func_data.args, 1) \o ");\n"

\* C6: at depth d an ImportedMethod is rendered as exactly two lines, each
\* after d indent tokens: the DllImport line with the binary name and the
\* native name as it is, then the extern declaration with the mapped return
\* type, the type-cased name and the parameters in args order, each
\* `<mapped type> <param-cased name>`, joined by ", ".
C6_ImportedMethodLines ==
    (ret.kind # "None" /\ node.kind = "ImportedMethod" /\ ValidMethod(node)) =>
        /\ f.fail_from = 0 => ret.kind = "Ok"
        /\ ret.kind = "Ok" =>
             Text(f.out) = Indent(ctx.indent_level) \o DllImportLine(node)
                           \o Indent(ctx.indent_level) \o ExternLine(node)

\* C6 witness: get_x with two arguments was rendered at depth 2, the entry
\* point keeping its native spelling.
C6_Witness ==
    /\ node.kind = "ImportedMethod"
    /\ ret.kind = "Ok"
    /\ ctx.indent_level = 2
    /\ node.func_data.name = Id_get_x
    /\ node.func_data.return_type = FfiInt(64, FALSE)
    /\ Len(node.func_data.args) = 2
    /\ Text(f.out) =
         "        [DllImport(\"native\", EntryPoint = \"get_x\")]\n"
         \o "        public static extern UInt64 GetX(Int32 left, Byte myArg);\n"

RECURSIVE CommentLines(_, _)
CommentLines(text, i) ==
    IF i > Len(text) THEN "" ELSE " * " \o text[i] \o "\n" \o CommentLines(text, i + 1)

CommentText(cm) == "/*\n" \o CommentLines(cm.text, 1) \o " */\n"

RECURSIVE UsingsText(_, _)
UsingsText(us, i) ==
    IF i > Len(us) THEN "" ELSE "using " \o us[i].path \o ";\n" \o UsingsText(us, i + 1)

\* A top-level child's own text, at depth 0.
ChildText(ch) == Text(AstNode_render(ch, Sink(0), RenderContext_default, "debug").out)

RECURSIVE ChildrenText(_, _, _)
ChildrenText(chs, i, blank_before_first) ==
    IF i > Len(chs) THEN ""
    ELSE (IF i > 1 \/ blank_before_first THEN "\n" ELSE "")
         \o ChildText(chs[i]) \o ChildrenText(chs, i + 1, blank_before_first)

RootHead(r) ==
    (IF Len(r.file_comment) = 1 THEN CommentText(r.file_comment[1]) ELSE "")
    \o (IF Len(r.file_comment) = 1 /\ Len(r.using_statements) > 0 THEN "\n" ELSE "")
    \o UsingsText(r.using_statements, 1)

\* C7 as stated: the comment, a blank line before the import list if a
\* comment was emitted, the using statements, then the children with one
\* blank line before each child except the first, which has none.
C7_FirstChildNeverAfterBlank ==
    (node.kind = "Root" /\ ret.kind = "Ok") =>
        Text(f.out) = RootHead(node) \o ChildrenText(node.children, 1, FALSE)

\* C7 amended: the comment; a blank line before the import list if a
\* comment was emitted and there is a using statement; the using
\* statements; then the children with one blank line before each child,
\* except that the first child has none when neither a comment nor a using
\* statement was emitted before it.
C7_BlankLineBeforeChildren ==
    (node.kind = "Root" /\ ret.kind # "None") =>
        /\ f.fail_from = 0 => ret.kind = "Ok"
        /\ ret.kind = "Ok" =>
             Text(f.out) =
                 RootHead(node)
                 \o ChildrenText(node.children, 1,
                                 Len(node.file_comment) = 1
                                     \/ Len(node.using_statements) > 0)

\* C7 witness: a root with a comment, a using statement and two children.
C7_Witness ==
    /\ node.kind = "Root"
    /\ ret.kind = "Ok"
    /\ node.file_comment = <<BlockComment(<<>>)>>
    /\ Len(node.using_statements) = 1
    /\ node.children = <<Namespace("Native", <<>>), Class("Loose", <<Method_get_x>>, FALSE)>>
    /\ Text(f.out) =
         "/*\n */\n\nusing System;\n\nnamespace Native\n{\n}\n\npublic class Loose\n{\n"
         \o "    [DllImport(\"native\", EntryPoint = \"get_x\")]\n"
         \o "    public static extern void GetX();\n}\n"

\* C9: once a write fails no further write is attempted, and the render
\* call returns the error of that first failed write; render returns Ok
\* only if every write succeeded.
C9_FirstFailureAborts ==
    ret.kind # "None" =>
        /\ ret.kind = "Ok" => (f.fail_from = 0 \/ f.attempts < f.fail_from)
        /\ (f.fail_from # 0 /\ f.attempts >= f.fail_from) =>
             /\ f.attempts = f.fail_from
             /\ ret = [kind |-> "Err", err |-> f.fail_from]
             /\ Len(f.out) = f.fail_from - 1

\* C9 witness: the 30th write of a Root's rendering failed, inside a nested
\* node, and Root::render returned that error.
C9_Witness ==
    /\ node.kind = "Root"
    /\ Len(node.children) = 2
    /\ f.fail_from = 30
    /\ f.attempts = 30
    /\ ret = [kind |-> "Err", err |-> 30]

\* The lines of an output: a line ends with the write of "\n" or of the
\* closing ");\n" of a method.
LineEnds(out) == {i \in 1..Len(out) : out[i] \in {"\n", ");\n"}}

LineEnd(out, n) ==
    CHOOSE e \in LineEnds(out) : Cardinality({x \in LineEnds(out) : x <= e}) = n

Line(out, n) ==
    SubSeq(out, IF n = 1 THEN 1 ELSE LineEnd(out, n - 1) + 1, LineEnd(out, n))

\* The number of indent tokens a line starts with.
LineIndent(line) ==
    IF \A j \in 1..Len(line) : line[j] = INDENT_TOK THEN Len(line)
    ELSE (CHOOSE j \in 1..Len(line) :
              line[j] # INDENT_TOK /\ \A k \in 1..(j - 1) : line[k] = INDENT_TOK) - 1

LineText(line) == Concat(line, LineIndent(line) + 1, Len(line))

\* C8: a Namespace at depth d holding one Class holding two ImportedMethods
\* is rendered as ten lines: the namespace header and braces after d indent
\* tokens, the class header and braces after d + 1, both lines of both
\* methods after d + 2, children between their parent's braces in order,
\* and no blank line between the two methods.
C8_NestedIndentation ==
    (ret.kind # "None" /\ f.attempts > 0) =>
        /\ ret.kind = "Ok"
        /\ Cardinality(LineEnds(f.out)) = 10
        /\ LET d == ctx.indent_level
               cls == node.children[1]
           IN  /\ [n \in 1..10 |-> LineIndent(Line(f.out, n))] =
                    <<d, d, d + 1, d + 1, d + 2, d + 2, d + 2, d + 2, d + 1, d>>
               /\ [n \in 1..10 |-> LineText(Line(f.out, n))] =
                    <<"namespace " \o node.name \o "\n",
                      "{\n",
                      "public " \o (IF cls.is_static THEN "static " ELSE "")
                          \o "class " \o cls.name \o "\n",
                      "{\n",
                      DllImportLine(cls.methods[1]),
                      ExternLine(cls.methods[1]),
                      DllImportLine(cls.methods[2]),
                      ExternLine(cls.methods[2]),
                      "}\n",
                      "}\n">>

\* C10: indented returns a context one level deeper than its parent, at
\* every depth: the depth never wraps or overflows, and a node k scopes
\* below the root has a context of depth exactly k.
C10_DepthNeverOverflows ==
    /\ ret.kind # "Panic"
    /\ ctx.indent_level = nesting

=============================================================================
